---- MODULE Spec2Model ----
(***************************************************************************)
(* Model of checker/verify_org_policy.py: the org-wide policy checker.     *)
(*                                                                         *)
(* A Python str is a sequence of symbols.  Where the program looks inside  *)
(* a string (anchors, guide text, manifest strings, P-keys) a symbol is    *)
(* one character; a literal the program only prints or passes on (a path,  *)
(* the fixed part of a message) is kept as a single symbol.                *)
(* An Optional[...] value is a record [some, v]; None is [some |-> FALSE]. *)
(***************************************************************************)
EXTENDS Integers, Sequences, FiniteSets, TLC

\* ------------------------------ Bounds ------------------------------------
\* Most anchors a generated guide text lacks at once.
MaxDrop == 2
\* Most P-keys of a generated manifest that are absent or not true at once.
MaxDev == 2

\* ----------------------------- Constants ----------------------------------
\* range(1, 19): principles are numbered 1..18.
NumPrinciples == 18

EXIT_OK == 0
EXIT_VIOLATION == 2
EXIT_ERROR == 1

CANON_PATHS ==
    << <<"docs/MULTI_DOCUMENT_ENTERPRISE_CODING_PRINCIPLES_GUIDE.md">>,
       <<".github/policy/MULTI_DOCUMENT_ENTERPRISE_CODING_PRINCIPLES_GUIDE.md">> >>

COMPLIANCE_JSON == <<"policy/compliance.json">>

\* ------------------------- Python str primitives --------------------------
DigitSym == <<"0", "1", "2", "3", "4", "5", "6", "7", "8", "9">>

\* str(i) / f"{i}" for a natural number i.
RECURSIVE Str(_)
Str(i) ==
    IF i < 10 THEN <<DigitSym[i + 1]>>
    ELSE Str(i \div 10) \o <<DigitSym[(i % 10) + 1]>>

\* a in text: a occurs as a contiguous substring of text.
In(a, text) ==
    \E off \in 0..(Len(text) - Len(a)) :
        \A j \in 1..Len(a) : text[off + j] = a[j]

IsSpace(c) == c \in {" ", "\t", "\n", "\r"}

\* s.strip(): s without its leading and trailing whitespace.
RECURSIVE Strip(_)
Strip(s) ==
    IF s = <<>> THEN s
    ELSE IF IsSpace(Head(s)) THEN Strip(Tail(s))
    ELSE IF IsSpace(s[Len(s)]) THEN Strip(SubSeq(s, 1, Len(s) - 1))
    ELSE s

\* sep.join(items) for a sequence of strs.
RECURSIVE Join(_, _)
Join(sep, items) ==
    IF items = <<>> THEN <<>>
    ELSE IF Len(items) = 1 THEN items[1]
    ELSE items[1] \o sep \o Join(sep, Tail(items))

CommaSpace == <<", ">>

\* Optional values.
None == [some |-> FALSE, v |-> <<>>]
Some(x) == [some |-> TRUE, v |-> x]
\* Truth value of an Optional[str]: None and "" are falsy.
TruthyStr(o) == o.some /\ o.v # <<>>
\* Truth value of an Optional[Path]: every Path object is truthy.
TruthyPath(o) == o.some

\* f"Principle {i}:" for i in range(1, 19)
PrincipleWord == <<"P", "r", "i", "n", "c", "i", "p", "l", "e", " ">>
PRINCIPLES == [i \in 1..NumPrinciples |-> PrincipleWord \o Str(i) \o <<":">>]

\* f"P{i}"
PKey(i) == <<"P">> \o Str(i)

\* ------------------------------ JSON values -------------------------------
\* What json.loads returns: None, bool, int, str, list, dict.
JNull == [t |-> "null"]
JBool(b) == [t |-> "bool", b |-> b]
JNum(n) == [t |-> "num", n |-> n]
JStr(s) == [t |-> "str", s |-> s]
JArr == [t |-> "list"]
JObj(m) == [t |-> "dict", m |-> m]

IsStr(x) == x.t = "str"
IsDict(x) == x.t = "dict"
\* Mutant of IsTrue: "== True" in place of "is True", which the number 1 passes.
IsTrueByEquality(x) ==
    \/ x.t = "bool" /\ x.b = TRUE
    \/ x.t = "num" /\ x.n = 1

\* x is True: identity with the bool singleton, so 1 and "true" are not True.
IsTrue(x) == x.t = "bool" /\ x.b = TRUE
\* dict.get(k): the value, or None (the same value JSON null parses to).
Get(d, k) == IF k \in DOMAIN d.m THEN d.m[k] ELSE JNull
\* Mutant of HasKey: "d.get(k) is not None" in place of "k in d".
HasKeyNotNone(d, k) == Get(d, k) # JNull
HasKey(d, k) == k \in DOMAIN d.m

\* ------------------------------- Helpers ----------------------------------
\* Mutant of _missing_anchors: the test inverted, "if a in text".
_missing_anchors_inverted(text, anchors) ==
    SelectSeq(anchors, LAMBDA a : In(a, text))

\* Mutant of _missing_anchors: the anchor is searched without its colon.
_missing_anchors_no_colon(text, anchors) ==
    SelectSeq(anchors, LAMBDA a : ~In(SubSeq(a, 1, Len(a) - 1), text))

\* [a for a in anchors if a not in text]
_missing_anchors(text, anchors) ==
    SelectSeq(anchors, LAMBDA a : ~In(a, text))

PKeys == [i \in 1..NumPrinciples |-> PKey(i)]

_validate_manifest_schema(obj) ==
    IF ~IsDict(obj) THEN Some(<<"compliance.json root must be an object">>)
    ELSE
      LET project == Get(obj, <<"project">>)
          run_id == Get(obj, <<"run_id">>)
          principles == Get(obj, <<"principles">>)
      IN
        IF ~IsStr(project) \/ Strip(project.s) = <<>>
          THEN Some(<<"compliance.json.project must be a non-empty string">>)
        ELSE IF ~IsStr(run_id) \/ Strip(run_id.s) = <<>>
          THEN Some(<<"compliance.json.run_id must be a non-empty string">>)
        ELSE IF ~IsDict(principles)
          THEN Some(<<"compliance.json.principles must be an object">>)
        ELSE
          LET missing == SelectSeq(PKeys, LAMBDA k : ~HasKey(principles, k))
              not_true == SelectSeq(PKeys, LAMBDA k : ~IsTrue(Get(principles, k)))
          IN
            IF missing # <<>>
              THEN Some(<<"compliance.principles missing keys: ">>
                        \o Join(CommaSpace, missing))
            ELSE IF not_true # <<>>
              THEN Some(<<"non-compliant principles (must be true): ">>
                        \o Join(CommaSpace, not_true))
            ELSE None

\* --------------------------- Program state --------------------------------
VARIABLES
    args,          \* parsed command line: [guide : Optional[str], json : BOOLEAN]
    strict_stat,   \* the interpreter's Path.exists(): TRUE when an OSError other
                   \* than "not found" is raised to the caller, FALSE when it is
                   \* swallowed and reported as "does not exist"
    fs,            \* path -> what the filesystem holds there (FileStates)
    guide_bytes,   \* guide path -> the document stored in the file, when it
                   \* has one: [asc, drop, d], see read_text
    manifest_doc,  \* policy/compliance.json: [wellformed, value]
    pc,            \* position of the run
    guide_path,    \* run(): guide_path
    text,          \* run(): text
    manifest_obj,  \* run(): manifest_obj
    stdout,        \* lines printed to standard output
    stderr,        \* lines printed to standard error
    ret,           \* value returned by run(), NoRet before it returns
    exit_status,   \* exit status of the process, NoRet while it runs
    touched        \* paths the run has asked the filesystem about

vars == <<args, strict_stat, fs, guide_bytes, manifest_doc, pc, guide_path, text,
          manifest_obj, stdout, stderr, ret, exit_status, touched>>

inputs == <<args, strict_stat, fs, guide_bytes, manifest_doc>>

\* No value yet: a number outside the exit codes.
NoRet == 0 - 1

\* ------------------------------ Filesystem --------------------------------
\* "absent"      nothing at the path
\* "denied"      stat() fails with an OSError other than "not found"
\*               (EACCES on a parent directory, ENAMETOOLONG, EIO)
\* "dir"         a directory
\* "empty"       a regular file of size 0
\* "unreadable"  a regular non-empty file that cannot be opened for reading
\* "undecodable" a regular non-empty file whose bytes are not UTF-8
\* "ok"          a regular non-empty readable UTF-8 file
FileStates == {"absent", "denied", "dir", "empty", "unreadable", "undecodable", "ok"}

Custom == <<"custom/GUIDE.md">>
GuidePaths == {Custom, CANON_PATHS[1], CANON_PATHS[2]}
Paths == GuidePaths \cup {COMPLIANCE_JSON}

\* Path(p): the override paths drawn here are already in normal form.
Path(p) == p

\* p.exists() and p.is_file() and p.stat().st_size > 0, when no call raises.
IsNonEmptyFile(p) == fs[p] \in {"unreadable", "undecodable", "ok"}
\* p.exists() raises instead of answering.
StatRaises(p) == fs[p] = "denied" /\ strict_stat

\* str(exc) of the exception a failed read raises.
ExcText(st) ==
    CASE st = "unreadable" -> <<"[Errno 13] Permission denied">>
      [] st = "dir" -> <<"[Errno 21] Is a directory">>
      [] st = "undecodable" -> <<"'utf-8' codec can't decode byte">>
      [] OTHER -> <<"Expecting value: line 1 column 1 (char 0)">>

\* Outcome of a call: it raised, or it returned val.
Raise == [raised |-> TRUE, val |-> None]
Return(v) == [raised |-> FALSE, val |-> v]

RECURSIVE FindCanon(_)
FindCanon(i) ==
    IF i > Len(CANON_PATHS) THEN Return(None)
    ELSE LET pp == Path(CANON_PATHS[i])
         IN IF StatRaises(pp) THEN Raise
            ELSE IF IsNonEmptyFile(pp) THEN Return(Some(pp))
            ELSE FindCanon(i + 1)

\* Mutant of _find_guide: the canonical paths are tried before the override.
_find_guide_canon_first(custom) ==
    LET canon == FindCanon(1)
    IN IF canon.raised \/ canon.val.some \/ ~TruthyStr(custom) THEN canon
       ELSE LET p == Path(custom.v)
            IN IF StatRaises(p) THEN Raise
               ELSE Return(IF IsNonEmptyFile(p) THEN Some(p) ELSE None)

_find_guide(custom) ==
    IF TruthyStr(custom)
      THEN LET p == Path(custom.v)
           IN IF StatRaises(p) THEN Raise
              ELSE Return(IF IsNonEmptyFile(p) THEN Some(p) ELSE None)
      ELSE FindCanon(1)

\* Paths _find_guide asks the filesystem about.
RECURSIVE CanonTouched(_)
CanonTouched(i) ==
    IF i > Len(CANON_PATHS) THEN {}
    ELSE LET pp == Path(CANON_PATHS[i])
         IN {pp} \cup (IF StatRaises(pp) \/ IsNonEmptyFile(pp) THEN {}
                       ELSE CanonTouched(i + 1))

FindTouched(custom) ==
    IF TruthyStr(custom) THEN {Path(custom.v)} ELSE CanonTouched(1)

\* ------------------------------- Output -----------------------------------
\* print(json.dumps(d)): one line holding the JSON object d.
JsonLine(d) == [kind |-> "json", obj |-> d]
\* print(msg, file=sys.stderr) / the interpreter's traceback.
TextLine(s) == [kind |-> "text", s |-> s]

FailMarker == <<"FAIL: ">>

\* _eprint(msg)
_eprint(msg) == stderr' = Append(stderr, TextLine(msg))

\* fail(msg, code): logs "FAIL: msg" to stderr and returns code.
fail(msg, code) ==
    /\ _eprint(FailMarker \o msg)
    /\ ret' = code

\* The failure exits of run() that go through fail():
\*   if args.json: print(json.dumps(payload)); return code
\*   return fail(msg, code)
ReturnFail(msg, code, payload) ==
    /\ IF args.json
         THEN /\ stdout' = Append(stdout, JsonLine(payload))
              /\ ret' = code
              /\ UNCHANGED stderr
         ELSE /\ fail(msg, code)
              /\ UNCHANGED stdout
    /\ pc' = "returned"

\* Mutant of ReturnError: the error is reported through fail() as a violation.
ReturnErrorAsViolation(msg, payload) == ReturnFail(msg, EXIT_VIOLATION, payload)

\* The failure exits of run() that report an unexpected error:
\*   if args.json: print(json.dumps(payload)); return EXIT_ERROR
\*   _eprint(msg); return EXIT_ERROR
ReturnError(msg, payload) ==
    /\ IF args.json
         THEN /\ stdout' = Append(stdout, JsonLine(payload))
              /\ UNCHANGED stderr
         ELSE /\ _eprint(msg)
              /\ UNCHANGED stdout
    /\ ret' = EXIT_ERROR
    /\ pc' = "returned"

\* An exception leaves run() uncaught.
Propagate ==
    /\ pc' = "raised"
    /\ UNCHANGED <<stdout, stderr, ret>>

\* ------------------------- Inputs of a run --------------------------------
\* All subsets of S with at most k elements.
RECURSIVE SubsetsUpTo(_, _)
SubsetsUpTo(S, k) ==
    IF k = 0 THEN {{}}
    ELSE LET R == SubsetsUpTo(S, k - 1)
         IN R \cup {r \cup {e} : r \in R, e \in S}

Indices == 1..NumPrinciples
\* Principles that are lacking together: the first and the last, one and two
\* digits, one number a prefix of another.  Each principle is lacking alone.
SampleIndices == {1, 5, 7, 10, 12, 18}
DropSets == {{i} : i \in Indices} \cup SubsetsUpTo(SampleIndices, MaxDrop)
DevSets == {{i} : i \in Indices} \cup SubsetsUpTo(SampleIndices, MaxDev)

\* What a guide holds in place of an anchor it lacks.
Decoys == {"omit", "nocolon", "lower", "space"}
Decoy(d, i) ==
    CASE d = "omit" -> <<>>
      [] d = "nocolon" -> PrincipleWord \o Str(i) \o <<"\n">>
      [] d = "lower" -> <<"p">> \o Tail(PrincipleWord) \o Str(i) \o <<":", "\n">>
      [] OTHER -> PrincipleWord \o Str(i) \o <<" ", ":", "\n">>

\* A guide: a heading, then one line per principle, in ascending or descending
\* order; the principles in drop have the decoy d in place of their anchor.
RECURSIVE GuideLines(_, _, _, _)
GuideLines(i, asc, drop, d) ==
    IF i < 1 \/ i > NumPrinciples THEN <<>>
    ELSE (IF i \in drop THEN Decoy(d, i)
          ELSE PRINCIPLES[i] \o <<"\n">>)
         \o GuideLines(IF asc THEN i + 1 ELSE i - 1, asc, drop, d)

GuideText(asc, drop, d) ==
    <<"#", " ", "G", "\n">>
        \o GuideLines(IF asc THEN 1 ELSE NumPrinciples, asc, drop, d)

\* read_text(encoding="utf-8", errors="strict") of a readable UTF-8 file: the
\* text of the document stored in it.
read_text(doc) == GuideText(doc.asc, doc.drop, doc.d)

FullGuide == [asc |-> TRUE, drop |-> {}, d |-> "omit"]
SmallGuides == {FullGuide, [asc |-> TRUE, drop |-> {7}, d |-> "omit"]}
AllGuides ==
    {doc \in [asc : BOOLEAN, drop : DropSets, d : Decoys] :
        doc.drop = {} => doc.d = "omit"}

\* Values a manifest holds under a P-key that is not true.
NotTrueVals == {JBool(FALSE), JNum(1), JStr(<<"t", "r", "u", "e">>), JNull}

\* principles: the keys in absent are missing, the other keys in dev hold v,
\* every other key holds true.
PrinciplesObj(dev, absent, v) ==
    JObj([k \in {PKeys[i] : i \in Indices \ absent} |->
            IF k \in {PKeys[i] : i \in dev} THEN v ELSE JBool(TRUE)])

GoodPrinciples == PrinciplesObj({}, {}, JBool(TRUE))

Manifest(project, run_id, principles) ==
    JObj([k \in {<<"project">>, <<"run_id">>, <<"principles">>} |->
            IF k = <<"project">> THEN project
            ELSE IF k = <<"run_id">> THEN run_id ELSE principles])

GoodStr == JStr(<<"a", "c", "m", "e">>)
GoodManifest == Manifest(GoodStr, GoodStr, GoodPrinciples)

\* Values tried for project and run_id.
FieldVals ==
    {JNull, JNum(1), JBool(TRUE), JArr, JStr(<<>>), JStr(<<" ">>),
     JStr(<<" ", "\t", "\n">>), JStr(<<" ", "a", " ">>), GoodStr}

\* A manifest without the key `drop`, and one with a key the schema does not name.
WithoutKey(obj, drop) == JObj([k \in DOMAIN obj.m \ {drop} |-> obj.m[k]])
WithExtraKey(obj) ==
    JObj([k \in DOMAIN obj.m \cup {<<"extra">>} |->
            IF k = <<"extra">> THEN JNum(1) ELSE obj.m[k]])

SmallManifests == {GoodManifest, Manifest(GoodStr, GoodStr, PrinciplesObj({5}, {}, JBool(FALSE)))}

\* Manifests that fail before the P-keys are looked at, or carry extra keys.
OtherManifests ==
    {JNull, JBool(TRUE), JNum(1), GoodStr, JArr}
    \cup {Manifest(a, b, c) : a \in FieldVals, b \in FieldVals,
                              c \in {GoodPrinciples, JNull, JArr, JBool(TRUE)}}
    \cup {WithoutKey(GoodManifest, k) :
             k \in {<<"project">>, <<"run_id">>, <<"principles">>}}
    \cup {WithExtraKey(GoodManifest),
          Manifest(GoodStr, GoodStr, WithExtraKey(GoodPrinciples))}

\* ------------------------------ run() -------------------------------------
GuideArgText == IF TruthyStr(args.guide) THEN args.guide.v ELSE <<"N/A (no --guide)">>

GuideNotFoundMsg ==
    <<"Guide not found. Checked: ">> \o GuideArgText \o CommaSpace
        \o Join(CommaSpace, CANON_PATHS) \o <<"; ">>
        \o <<"files must exist and be non-empty.">>

\* 1) Guide presence (with optional override)
FindGuide ==
    /\ pc = "find"
    /\ touched' = touched \cup FindTouched(args.guide)
    /\ LET found == _find_guide(args.guide)
       IN IF found.raised
            THEN Propagate /\ UNCHANGED guide_path
          ELSE IF ~TruthyPath(found.val)
            THEN /\ ReturnFail(GuideNotFoundMsg, EXIT_VIOLATION,
                               [ok |-> FALSE, error |-> GuideNotFoundMsg,
                                code |-> EXIT_VIOLATION])
                 /\ guide_path' = found.val
          ELSE /\ guide_path' = found.val
               /\ pc' = "read"
               /\ UNCHANGED <<stdout, stderr, ret>>
    /\ UNCHANGED <<inputs, text, manifest_obj, exit_status>>

\* 2) text = guide_path.read_text(encoding="utf-8", errors="strict")
ReadGuide ==
    /\ pc = "read"
    /\ touched' = touched \cup {guide_path.v}
    /\ IF fs[guide_path.v] # "ok"
         THEN LET msg == <<"Failed to read guide '">> \o guide_path.v \o <<"': ">>
                             \o ExcText(fs[guide_path.v])
              IN /\ ReturnError(msg, [ok |-> FALSE, error |-> msg,
                                      code |-> EXIT_ERROR])
                 /\ UNCHANGED text
         ELSE /\ text' = read_text(guide_bytes[guide_path.v])
              /\ pc' = "scan"
              /\ UNCHANGED <<stdout, stderr, ret>>
    /\ UNCHANGED <<inputs, guide_path, manifest_obj, exit_status>>

\* Mutant of ScanAnchors: the failure is reported but run() does not return.
ScanAnchorsNoReturn ==
    /\ pc = "scan"
    /\ LET missing == _missing_anchors(text, PRINCIPLES)
           msg == <<"Guide missing required anchors: ">>
                      \o Join(CommaSpace, missing)
       IN IF missing # <<>>
            THEN IF args.json
                   THEN /\ stdout' = Append(stdout,
                               JsonLine([ok |-> FALSE, error |-> msg,
                                         code |-> EXIT_VIOLATION,
                                         guide |-> guide_path.v]))
                        /\ UNCHANGED stderr
                   ELSE /\ _eprint(FailMarker \o msg)
                        /\ UNCHANGED stdout
            ELSE UNCHANGED <<stdout, stderr>>
    /\ pc' = "exists"
    /\ UNCHANGED <<inputs, guide_path, text, manifest_obj, ret, exit_status,
                   touched>>

\* missing = _missing_anchors(text, PRINCIPLES)
ScanAnchors ==
    /\ pc = "scan"
    /\ LET missing == _missing_anchors(text, PRINCIPLES)
       IN IF missing # <<>>
            THEN LET msg == <<"Guide missing required anchors: ">>
                                \o Join(CommaSpace, missing)
                 IN ReturnFail(msg, EXIT_VIOLATION,
                               [ok |-> FALSE, error |-> msg,
                                code |-> EXIT_VIOLATION, guide |-> guide_path.v])
            ELSE /\ pc' = "exists"
                 /\ UNCHANGED <<stdout, stderr, ret>>
    /\ UNCHANGED <<inputs, guide_path, text, manifest_obj, exit_status, touched>>

\* 3) if not COMPLIANCE_JSON.exists()
CheckManifest ==
    /\ pc = "exists"
    /\ touched' = touched \cup {COMPLIANCE_JSON}
    /\ IF StatRaises(COMPLIANCE_JSON)
         THEN Propagate
       ELSE IF fs[COMPLIANCE_JSON] \in {"absent", "denied"}
         THEN LET msg == <<"Missing compliance manifest: ">> \o COMPLIANCE_JSON
              IN ReturnFail(msg, EXIT_VIOLATION,
                            [ok |-> FALSE, error |-> msg,
                             code |-> EXIT_VIOLATION, guide |-> guide_path.v])
       ELSE /\ pc' = "load"
            /\ UNCHANGED <<stdout, stderr, ret>>
    /\ UNCHANGED <<inputs, guide_path, text, manifest_obj, exit_status>>

\* json.loads(COMPLIANCE_JSON.read_text(encoding="utf-8")) raises.
LoadRaises ==
    \/ fs[COMPLIANCE_JSON] \in {"dir", "unreadable", "undecodable"}
    \/ fs[COMPLIANCE_JSON] = "empty"
    \/ ~manifest_doc.wellformed

LoadManifest ==
    /\ pc = "load"
    /\ IF LoadRaises
         THEN LET msg == <<"Malformed compliance.json (invalid JSON): ">>
                             \o ExcText(fs[COMPLIANCE_JSON])
              IN /\ ReturnError(msg, [ok |-> FALSE, error |-> msg,
                                      code |-> EXIT_ERROR,
                                      manifest |-> COMPLIANCE_JSON])
                 /\ UNCHANGED manifest_obj
         ELSE /\ manifest_obj' = manifest_doc.value
              /\ pc' = "validate"
              /\ UNCHANGED <<stdout, stderr, ret>>
    /\ UNCHANGED <<inputs, guide_path, text, exit_status, touched>>

\* schema_err = _validate_manifest_schema(manifest_obj)
ValidateManifest ==
    /\ pc = "validate"
    /\ LET schema_err == _validate_manifest_schema(manifest_obj)
       IN IF TruthyStr(schema_err)
            THEN ReturnFail(schema_err.v, EXIT_VIOLATION,
                            [ok |-> FALSE, error |-> schema_err.v,
                             code |-> EXIT_VIOLATION,
                             manifest |-> COMPLIANCE_JSON,
                             guide |-> guide_path.v])
            ELSE /\ pc' = "report"
                 /\ UNCHANGED <<stdout, stderr, ret>>
    /\ UNCHANGED <<inputs, guide_path, text, manifest_obj, exit_status, touched>>

\* Success
ReportSuccess ==
    /\ pc = "report"
    /\ stdout' = Append(stdout,
                        JsonLine([ok |-> TRUE, guide |-> guide_path.v,
                                  manifest |-> COMPLIANCE_JSON,
                                  principles |-> <<"P1..P18">>]))
    /\ ret' = EXIT_OK
    /\ pc' = "returned"
    /\ UNCHANGED <<inputs, guide_path, text, manifest_obj, stderr, exit_status,
                   touched>>

\* main(): raise SystemExit(run())
MainExit ==
    /\ pc = "returned"
    /\ exit_status' = ret
    /\ pc' = "exited"
    /\ UNCHANGED <<inputs, guide_path, text, manifest_obj, stdout, stderr, ret,
                   touched>>

\* An exception that left run() leaves main() too: the interpreter prints the
\* traceback to stderr and the process ends with status 1.
MainCrash ==
    /\ pc = "raised"
    /\ stderr' = Append(stderr, TextLine(<<"Traceback (most recent call last):">>))
    /\ exit_status' = 1
    /\ pc' = "crashed"
    /\ UNCHANGED <<inputs, guide_path, text, manifest_obj, stdout, ret, touched>>

Next ==
    \/ FindGuide
    \/ ReadGuide
    \/ ScanAnchors
    \/ CheckManifest
    \/ LoadManifest
    \/ ValidateManifest
    \/ ReportSuccess
    \/ MainExit
    \/ MainCrash

Malformed == [wellformed |-> FALSE, value |-> JNull]
WellFormed(v) == [wellformed |-> TRUE, value |-> v]

ArgGuides == {None, Some(<<>>), Some(Custom)}

\* run() has parsed its arguments and done nothing else.
InitRun ==
    /\ pc = "find"
    /\ guide_path = None
    /\ text = <<>>
    /\ manifest_obj = JNull
    /\ stdout = <<>>
    /\ stderr = <<>>
    /\ ret = NoRet
    /\ exit_status = NoRet
    /\ touched = {}

\* Every state of the four paths, with a few guide texts and manifests.
InitFS ==
    /\ args \in [guide : ArgGuides, json : BOOLEAN]
    /\ fs \in [Paths -> FileStates]
    /\ args.guide # Some(Custom) => fs[Custom] = "absent"
    /\ strict_stat \in BOOLEAN
    /\ (\A p \in Paths : fs[p] # "denied") => strict_stat
    /\ guide_bytes \in [GuidePaths -> SmallGuides]
    /\ \A p \in GuidePaths : fs[p] # "ok" => guide_bytes[p] = FullGuide
    /\ manifest_doc \in {Malformed} \cup {WellFormed(v) : v \in SmallManifests}
    /\ fs[COMPLIANCE_JSON] # "ok" => manifest_doc = Malformed

\* Every generated guide text, at the first canonical path, with a valid manifest.
InitText ==
    /\ args \in [guide : {None}, json : BOOLEAN]
    /\ strict_stat = TRUE
    /\ fs = [p \in Paths |->
                IF p \in {CANON_PATHS[1], COMPLIANCE_JSON} THEN "ok" ELSE "absent"]
    /\ \E t \in AllGuides :
          guide_bytes = [p \in GuidePaths |->
                            IF p = CANON_PATHS[1] THEN t ELSE FullGuide]
    /\ manifest_doc = WellFormed(GoodManifest)

\* Every generated manifest, with a valid guide at the first canonical path.
InitManifest ==
    /\ args \in [guide : {None}, json : BOOLEAN]
    /\ strict_stat = TRUE
    /\ fs = [p \in Paths |->
                IF p \in {CANON_PATHS[1], COMPLIANCE_JSON} THEN "ok" ELSE "absent"]
    /\ guide_bytes = [p \in GuidePaths |-> FullGuide]
    /\ \/ \E v \in OtherManifests : manifest_doc = WellFormed(v)
       \/ \E dev \in DevSets :
             \E absent \in SUBSET dev, v \in NotTrueVals :
                manifest_doc =
                    WellFormed(Manifest(GoodStr, GoodStr,
                                        PrinciplesObj(dev, absent, v)))

Init ==
    /\ InitFS \/ InitText \/ InitManifest
    /\ InitRun

Spec == Init /\ [][Next]_vars

\* ------------------------------ Properties --------------------------------
\* What the properties say about the inputs of a run is stated on the inputs
\* themselves, not through the operators run() uses.

RunReturned == pc \in {"returned", "exited"}
RunCrashed == pc \in {"raised", "crashed"}
\* The locate stage has ended without raising.
Located == pc # "find" /\ ~(RunCrashed /\ ~guide_path.some)

\* The path is an existing, non-empty regular file.
RegularNonEmpty(p) == fs[p] \in {"unreadable", "undecodable", "ok"}
\* An override path is given (--guide with a non-empty value).
OverrideGiven == args.guide.some /\ args.guide.v # <<>>

\* The resolved guide can be read as UTF-8 / holds all 18 anchors.
GuideReadable == guide_path.some /\ fs[guide_path.v] = "ok"
AnchorsLacking == guide_bytes[guide_path.v].drop
GuideComplete == GuideReadable /\ AnchorsLacking = {}

NonBlank(x) ==
    /\ x.t = "str"
    /\ \E j \in 1..Len(x.s) : x.s[j] \notin {" ", "\t", "\n", "\r"}

HasPrinciplesObject(v) ==
    /\ v.t = "dict"
    /\ {<<"project">>, <<"run_id">>, <<"principles">>} \subseteq DOMAIN v.m
    /\ NonBlank(v.m[<<"project">>])
    /\ NonBlank(v.m[<<"run_id">>])
    /\ v.m[<<"principles">>].t = "dict"

AbsentKeys(v) ==
    {i \in Indices : PKeys[i] \notin DOMAIN v.m[<<"principles">>].m}
NotTrueKeys(v) ==
    {i \in Indices \ AbsentKeys(v) :
        v.m[<<"principles">>].m[PKeys[i]] # JBool(TRUE)}

ValidManifest(v) ==
    /\ HasPrinciplesObject(v)
    /\ AbsentKeys(v) = {}
    /\ NotTrueKeys(v) = {}

ManifestAbsent == fs[COMPLIANCE_JSON] = "absent"
ManifestParses == fs[COMPLIANCE_JSON] = "ok" /\ manifest_doc.wellformed
\* policy/compliance.json exists but cannot be read or is not JSON.
ManifestBroken ==
    \/ fs[COMPLIANCE_JSON] \in {"dir", "empty", "unreadable", "undecodable"}
    \/ fs[COMPLIANCE_JSON] = "ok" /\ ~manifest_doc.wellformed

\* The message of a failing run: the payload's error, or the stderr line.
IsPrefix(a, b) == Len(a) <= Len(b) /\ SubSeq(b, 1, Len(a)) = a
Reported ==
    IF args.json THEN stdout[1].obj.error
    ELSE IF IsPrefix(FailMarker, stderr[1].s) THEN Tail(stderr[1].s)
    ELSE stderr[1].s

\* The items of a list printed with ", " between them.
RECURSIVE Items(_)
Items(body) ==
    IF body = <<>> THEN <<>>
    ELSE LET cut == CHOOSE n \in 1..(Len(body) + 1) :
                        /\ n = Len(body) + 1 \/ <<body[n]>> = CommaSpace
                        /\ \A k \in 1..(n - 1) : <<body[k]>> # CommaSpace
         IN <<SubSeq(body, 1, cut - 1)>>
                \o Items(SubSeq(body, cut + 1, Len(body)))
\* The message lists exactly the strings of `wanted`, each once.
ListsExactly(msg, wanted) ==
    LET items == Items(Tail(msg))
    IN /\ Len(items) = Cardinality(wanted)
       /\ {items[k] : k \in 1..Len(items)} = wanted

\* C1: run() returns 0 exactly when a guide is resolved, it is readable and
\* holds all 18 anchors, and policy/compliance.json exists, parses and passes
\* the validator; a run returning 0 prints one payload to stdout with ok true,
\* the resolved guide path and the manifest path.
C1_ExitZeroIffAllChecksPass ==
    (RunReturned \/ pc = "crashed") =>
        /\ (ret = 0) <=> (/\ GuideComplete
                          /\ ManifestParses
                          /\ ValidManifest(manifest_doc.value))
        /\ ret = 0 =>
              /\ Len(stdout) = 1
              /\ stdout[1].kind = "json"
              /\ stdout[1].obj.ok = TRUE
              /\ stdout[1].obj.guide = guide_path.v
              /\ stdout[1].obj.manifest = COMPLIANCE_JSON
              /\ stderr = <<>>

C1_Witness ==
    /\ pc = "exited"
    /\ exit_status = 0
    /\ OverrideGiven
    /\ guide_path = Some(Custom)
    /\ stdout # <<>>

\* C2: every run ends through a controlled exit with a code in {0, 1, 2} and a
\* reported message; no filesystem condition makes an exception leave run().
C2_AlwaysControlledExit ==
    /\ ~RunCrashed
    /\ pc = "exited" =>
          /\ exit_status \in {0, 1, 2}
          /\ Len(stdout) + Len(stderr) >= 1

\* C3: the code of a failing run is that of its first failing check: 2 for no
\* guide, a lacking anchor, an absent manifest or an invalid manifest; 1 for a
\* guide that cannot be read and for a manifest that exists but cannot be read
\* or parsed.
C3_ExitCodeByFirstFailure ==
    RunReturned =>
        IF ~guide_path.some THEN ret = 2
        ELSE IF ~GuideReadable THEN ret = 1
        ELSE IF AnchorsLacking # {} THEN ret = 2
        ELSE IF ManifestAbsent THEN ret = 2
        ELSE IF ManifestBroken THEN ret = 1
        ELSE IF ManifestParses /\ ~ValidManifest(manifest_doc.value) THEN ret = 2
        ELSE TRUE

C3_Witness ==
    /\ pc = "exited"
    /\ GuideComplete
    /\ fs[COMPLIANCE_JSON] = "ok"
    /\ ~manifest_doc.wellformed
    /\ exit_status = 1

\* C4: a failing run without --json prints exactly one message to stderr,
\* beginning with "FAIL: ", and nothing to stdout; with --json it prints
\* exactly one failure payload to stdout and nothing to stderr.
C4_FailureOutput ==
    (RunReturned /\ ret \in {1, 2}) =>
        IF args.json
          THEN /\ Len(stdout) = 1
               /\ stdout[1].kind = "json"
               /\ stdout[1].obj.ok = FALSE
               /\ stderr = <<>>
          ELSE /\ Len(stderr) = 1
               /\ IsPrefix(FailMarker, stderr[1].s)
               /\ stdout = <<>>

C2_Reached == pc = "crashed" /\ exit_status = 1 /\ ret = NoRet

\* C5: the guide used is the first existing, non-empty regular file among the
\* override path (when given) and the two canonical paths, in that order;
\* "guide not found" is reported only when none of them is such a file.
ListedPaths ==
    (IF OverrideGiven THEN <<args.guide.v>> ELSE <<>>) \o CANON_PATHS
FirstListed ==
    IF \E k \in 1..Len(ListedPaths) : RegularNonEmpty(ListedPaths[k])
      THEN Some(ListedPaths[CHOOSE k \in 1..Len(ListedPaths) :
                               /\ RegularNonEmpty(ListedPaths[k])
                               /\ \A j \in 1..(k - 1) :
                                     ~RegularNonEmpty(ListedPaths[j])])
      ELSE None

C5_FirstOfListedPaths ==
    Located =>
        /\ guide_path = FirstListed
        /\ (RunReturned /\ ~guide_path.some) =>
              \A k \in 1..Len(ListedPaths) : ~RegularNonEmpty(ListedPaths[k])

\* C6: an override path naming an existing, non-empty regular file is the
\* resolved guide and the only text scanned, whatever the canonical paths
\* hold: they are never consulted, a valid canonical guide does not rescue an
\* override guide lacking an anchor, and the guide path in the output is the
\* override path.
C6_OverrideTakesPrecedence ==
    (OverrideGiven /\ RegularNonEmpty(args.guide.v) /\ Located) =>
        /\ guide_path = Some(args.guide.v)
        /\ touched \cap {CANON_PATHS[1], CANON_PATHS[2]} = {}
        /\ (fs[args.guide.v] = "ok" /\ pc # "read") =>
              text = read_text(guide_bytes[args.guide.v])
        /\ (fs[args.guide.v] = "ok" /\ guide_bytes[args.guide.v].drop # {}
              /\ pc \notin {"read", "scan"}) =>
              /\ RunReturned
              /\ ret = 2
              /\ ListsExactly(Reported,
                     {PRINCIPLES[i] : i \in guide_bytes[args.guide.v].drop})
        /\ \A k \in 1..Len(stdout) :
              "guide" \in DOMAIN stdout[k].obj =>
                  stdout[k].obj.guide = args.guide.v

C6_Witness ==
    /\ pc = "exited"
    /\ args.json
    /\ OverrideGiven
    /\ fs[Custom] = "ok"
    /\ guide_bytes[Custom].drop = {7}
    /\ fs[CANON_PATHS[1]] = "ok"
    /\ guide_bytes[CANON_PATHS[1]].drop = {}
    /\ exit_status = 2
    /\ stdout[1].obj.guide = Custom

\* C7: the validator accepts a parsed value exactly when it is an object whose
\* project and run_id are strings that are non-empty after trimming and whose
\* principles is an object holding true under each of P1..P18; a run whose
\* manifest the validator rejects exits 2.
C7_ValidatorIffSchema ==
    /\ pc = "validate" =>
          ((_validate_manifest_schema(manifest_obj) = None)
              <=> ValidManifest(manifest_obj))
    /\ (RunReturned /\ GuideComplete /\ ManifestParses) =>
          /\ manifest_obj = manifest_doc.value
          /\ ~ValidManifest(manifest_obj) => ret = 2
          /\ ValidManifest(manifest_obj) => ret = 0

C7_Witness ==
    /\ pc = "exited"
    /\ HasPrinciplesObject(manifest_obj)
    /\ AbsentKeys(manifest_obj) = {}
    /\ NotTrueKeys(manifest_obj) = {5}
    /\ manifest_obj.m[<<"principles">>].m[PKey(5)] = JNum(1)
    /\ exit_status = 2

\* C8: the scan finds exactly the anchors the guide text lacks, each once,
\* wherever and in whichever order the others occur; the run then exits 2 and
\* its message lists exactly those anchors.  With no anchor lacking the run
\* goes on to the manifest.
C8_MissingAnchorsExact ==
    /\ pc = "scan" =>
          LET missing == _missing_anchors(text, PRINCIPLES)
          IN /\ Len(missing) = Cardinality(AnchorsLacking)
             /\ {missing[k] : k \in 1..Len(missing)}
                    = {PRINCIPLES[i] : i \in AnchorsLacking}
    /\ (Located /\ GuideReadable /\ pc \notin {"read", "scan"}) =>
        IF AnchorsLacking = {}
          THEN COMPLIANCE_JSON \in touched \/ pc = "exists"
          ELSE /\ RunReturned
               /\ ret = 2
               /\ Reported[1] = "Guide missing required anchors: "
               /\ ListsExactly(Reported, {PRINCIPLES[i] : i \in AnchorsLacking})

C8_Witness ==
    /\ pc = "exited"
    /\ GuideReadable
    /\ ~guide_bytes[guide_path.v].asc
    /\ AnchorsLacking = {1, 7}
    /\ guide_bytes[guide_path.v].d = "nocolon"
    /\ exit_status = 2

\* C9: with root, project and run_id in order and principles an object, a run
\* whose manifest lacks some of P1..P18 exits 2 listing exactly the absent keys
\* as missing; otherwise a run whose manifest holds a value other than true
\* exits 2 naming exactly those keys as non-compliant.
C9_PrincipleKeysNamed ==
    (RunReturned /\ GuideComplete /\ ManifestParses
        /\ HasPrinciplesObject(manifest_doc.value)) =>
        LET v == manifest_doc.value
        IN IF AbsentKeys(v) # {}
             THEN /\ ret = 2
                  /\ Reported[1] = "compliance.principles missing keys: "
                  /\ ListsExactly(Reported, {PKeys[i] : i \in AbsentKeys(v)})
           ELSE IF NotTrueKeys(v) # {}
             THEN /\ ret = 2
                  /\ Reported[1] = "non-compliant principles (must be true): "
                  /\ ListsExactly(Reported, {PKeys[i] : i \in NotTrueKeys(v)})
           ELSE ret = 0

C9_Witness ==
    /\ pc = "exited"
    /\ HasPrinciplesObject(manifest_obj)
    /\ AbsentKeys(manifest_obj) = {12}
    /\ NotTrueKeys(manifest_obj) = {5}
    /\ exit_status = 2
    /\ ~args.json
    /\ stderr[1].s = <<"FAIL: ", "compliance.principles missing keys: ",
                       "P", "1", "2">>

\* C10: the stages run in the order locate, scan, load, validate, report, and
\* the first failing stage ends the run: after a guide failure the manifest is
\* never examined, and exit code and message are fixed by the arguments and
\* the guide alone.
StageSteps ==
    {<<"find", "read">>, <<"read", "scan">>, <<"scan", "exists">>,
     <<"exists", "load">>, <<"load", "validate">>, <<"validate", "report">>,
     <<"report", "returned">>, <<"returned", "exited">>,
     <<"find", "returned">>, <<"read", "returned">>, <<"scan", "returned">>,
     <<"exists", "returned">>, <<"load", "returned">>,
     <<"validate", "returned">>,
     <<"find", "raised">>, <<"exists", "raised">>, <<"raised", "crashed">>}

GuideFailed ==
    /\ Located
    /\ \/ ~guide_path.some
       \/ guide_path.some /\ pc # "read" /\ fs[guide_path.v] # "ok"
       \/ /\ guide_path.some /\ pc \notin {"read", "scan"}
          /\ fs[guide_path.v] = "ok" /\ AnchorsLacking # {}

RECURSIVE Ascending(_)
Ascending(S) ==
    IF S = {} THEN <<>>
    ELSE LET lo == CHOOSE e \in S : \A o \in S : e <= o
         IN <<lo>> \o Ascending(S \ {lo})

GuideFailureCode == IF guide_path.some /\ fs[guide_path.v] # "ok" THEN 1 ELSE 2
GuideFailureMsg ==
    IF ~guide_path.some
      THEN <<"Guide not found. Checked: ">>
             \o (IF OverrideGiven THEN args.guide.v ELSE <<"N/A (no --guide)">>)
             \o <<", ">> \o CANON_PATHS[1] \o <<", ">> \o CANON_PATHS[2]
             \o <<"; ", "files must exist and be non-empty.">>
    ELSE IF fs[guide_path.v] # "ok"
      THEN <<"Failed to read guide '">> \o guide_path.v \o <<"': ">>
             \o ExcText(fs[guide_path.v])
    ELSE LET lack == Ascending(AnchorsLacking)
         IN <<"Guide missing required anchors: ">>
              \o Join(<<", ">>, [k \in 1..Len(lack) |-> PRINCIPLES[lack[k]]])

C10_GuideFailureEndsRun ==
    GuideFailed =>
        /\ RunReturned
        /\ COMPLIANCE_JSON \notin touched
        /\ manifest_obj = JNull
        /\ ret = GuideFailureCode
        /\ Len(stdout) + Len(stderr) = 1
        /\ Reported = GuideFailureMsg
        /\ \A k \in 1..Len(stdout) : "manifest" \notin DOMAIN stdout[k].obj

C10_Step ==
    /\ pc' # pc => <<pc, pc'>> \in StageSteps
    /\ ret # NoRet => /\ ret' = ret
                      /\ stdout' = stdout
                      /\ stderr' = stderr
                      /\ touched' = touched

C10_LinearStages == []C10_GuideFailureEndsRun /\ [][C10_Step]_vars

C10_Witness ==
    /\ pc = "exited"
    /\ ~guide_path.some
    /\ fs[COMPLIANCE_JSON] = "ok"
    /\ ~manifest_doc.wellformed
    /\ exit_status = 2
====
